---- MODULE Spec2Model ----
(***************************************************************************)
(* A model of the deet debugger (src/src/debugger.rs, src/src/inferior.rs):*)
(* the command loop of Debugger::run, the traced child it drives through   *)
(* ptrace, and the breakpoint patching of Inferior.                        *)
(*                                                                         *)
(* The traced program is a straight line of one-byte instructions laid out *)
(* in two mapped 8-byte words; the page below it is not mapped.  A 64-bit  *)
(* word is the tuple of its 8 bytes, least significant first, so that the  *)
(* shifts and masks of write_byte are computed on the word itself.         *)
(***************************************************************************)
EXTENDS Integers, Sequences, FiniteSets, TLC

\* ------------------------------------------------------------------ bounds
\* Children one session may spawn.
MaxSpawn == 2
\* Pending breakpoint addresses (Debugger::break_points) held at once.
MaxPending == 2

\* Stack frames the child's stack has room for.
MaxFrames == 3
\* Frames recorded of one backtrace (its memory reads are counted to twice that).
MaxEmit == 4
\* Length of the strings given to parse_address (beside the longer examples).
MaxStr == 3

\* --------------------------------------------------------- program constants
\* The one-byte trap instruction (int3) written by install_break_points.
TrapOp == 204
\* size_of::<usize>() on the 64-bit target.
WordSize == 8

\* ------------------------------------------------------------ 64-bit words
Byte == 0..255
WordIdx == 1..WordSize

RECURSIVE BitAnd(_, _)
BitAnd(a, b) ==
    IF a = 0 \/ b = 0 THEN 0
    ELSE IF b = 255 \/ a = b THEN a
    ELSE IF a = 255 THEN b
    ELSE (a % 2) * (b % 2) + 2 * BitAnd(a \div 2, b \div 2)

RECURSIVE BitOr(_, _)
BitOr(a, b) ==
    IF a = 0 THEN b
    ELSE IF b = 0 \/ a = b THEN a
    ELSE IF a = 255 \/ b = 255 THEN 255
    ELSE (IF (a % 2) + (b % 2) > 0 THEN 1 ELSE 0) + 2 * BitOr(a \div 2, b \div 2)

\* `b as u64`
U64(b) == [i \in WordIdx |-> IF i = 1 THEN b ELSE 0]
\* `w as u8`
AsU8(w) == w[1]
\* w >> bits and w << bits, for the shift counts 8 * byte_offset of write_byte
Shr(w, bits) ==
    LET k == bits \div 8
    IN  [i \in WordIdx |-> IF i + k <= WordSize THEN w[i + k] ELSE 0]
Shl(w, bits) ==
    LET k == bits \div 8
    IN  [i \in WordIdx |-> IF i - k >= 1 THEN w[i - k] ELSE 0]
WAnd(v, w) == [i \in WordIdx |-> BitAnd(v[i], w[i])]
WOr(v, w) == [i \in WordIdx |-> BitOr(v[i], w[i])]
WNot(w) == [i \in WordIdx |-> 255 - w[i]]
\* The value of a word as a number (used for the small words of the stack).
RECURSIVE WordVal(_, _)
WordVal(w, i) ==
    IF i > WordSize THEN 0
    ELSE IF \A j \in i..WordSize : w[j] = 0 THEN 0
    ELSE w[i] + 256 * WordVal(w, i + 1)
ToNat(w) == WordVal(w, 1)

\* addr & (-(size_of::<usize>()) as usize): the low three bits cleared.
align_addr_to_word(addr) == addr - (addr % WordSize)

\* ------------------------------------------------- the traced program image
\* Address 0 lies in the unmapped page; the code occupies two words.
CodeBase == WordSize
CodeWords == {CodeBase, CodeBase + WordSize}
CodeAddrs == CodeBase..(CodeBase + 2 * WordSize - 1)
\* The stack occupies the words from StackBase up.
StackBase == 4 * WordSize
StackSlots == 2 * MaxFrames
StackWords == {StackBase + k * WordSize : k \in 0..(StackSlots - 1)}
MappedWords == CodeWords \cup StackWords
\* The first instruction the child runs after exec, and its last one.
Entry == CodeBase + 6
ExitAddr == Entry + 3
\* The bytes of the loaded image: one-byte instructions (push r: 0x50..0x57),
\* and at ExitAddr the instruction that ends the program (written 0xc3).
OrigByte(a) == IF a = ExitAddr THEN 195 ELSE 80 + (a % WordSize)

\* Memory is a function from the mapped word addresses to words.
MemMapped(mem, a) == align_addr_to_word(a) \in DOMAIN mem
MemByte(mem, a) == mem[align_addr_to_word(a)][(a % WordSize) + 1]

\* ------------------------------------------------------------- the tracee
\* st: "none" (no child), "stopped" (in ptrace-stop), "running" (resumed and
\* not yet seen to stop), "zombie" (terminated, not reaped), "reaped".
\* tr: the addresses whose real instruction ran during the current command.
Tracee(st, mem, rip, rbp, tr) ==
    [st |-> st, mem |-> mem, rip |-> rip, rbp |-> rbp, tr |-> tr]
NoMem == [w \in {} |-> U64(0)]
NoTracee == Tracee("none", NoMem, 0, 0, <<>>)
\* A terminated child has no memory and no registers left.
Gone(st) == Tracee(st, NoMem, 0, 0, <<>>)

\* A ptrace request is served only while the tracee is in ptrace-stop (ESRCH
\* otherwise).
Attached(t) == t.st = "stopped"

\* ptrace::read: PTRACE_PEEKDATA of the 8 bytes at addr (EIO when unmapped).
ptrace_read(t, addr) ==
    IF Attached(t) /\ \A i \in WordIdx : MemMapped(t.mem, addr + i - 1)
    THEN [ok |-> TRUE, word |-> [i \in WordIdx |-> MemByte(t.mem, addr + i - 1)]]
    ELSE [ok |-> FALSE, word |-> U64(0)]

\* ptrace::write: PTRACE_POKEDATA of the 8 bytes at addr.
ptrace_write(t, addr, word) ==
    IF Attached(t) /\ \A i \in WordIdx : MemMapped(t.mem, addr + i - 1)
    THEN [ok |-> TRUE,
          t |-> [t EXCEPT !.mem =
                   IF addr \in DOMAIN t.mem
                   THEN [t.mem EXCEPT ![addr] = word]
                   ELSE [w \in DOMAIN t.mem |->
                           [i \in WordIdx |->
                              LET a == w + i - 1
                              IN  IF a >= addr /\ a < addr + WordSize
                                  THEN word[a - addr + 1] ELSE t.mem[w][i]]]]]
    ELSE [ok |-> FALSE, t |-> t]

\* ptrace::getregs / ptrace::setregs
ptrace_getregs(t) ==
    [ok |-> Attached(t), rip |-> t.rip, rbp |-> t.rbp]
ptrace_setregs(t, rip) ==
    IF Attached(t) THEN [ok |-> TRUE, t |-> [t EXCEPT !.rip = rip]]
    ELSE [ok |-> FALSE, t |-> t]

\* One instruction of the child at its instruction pointer: the trap raises
\* SIGTRAP with the instruction pointer one byte past it; the last
\* instruction ends the process; any other runs and is recorded in tr.
ExecOne(t) ==
    IF MemByte(t.mem, t.rip) = TrapOp
    THEN [ev |-> "trap", t |-> [t EXCEPT !.rip = t.rip + 1]]
    ELSE IF t.rip = ExitAddr
    THEN [ev |-> "exit", t |-> [Gone("zombie") EXCEPT !.tr = Append(t.tr, t.rip)]]
    ELSE [ev |-> "ran",
          t |-> [t EXCEPT !.rip = t.rip + 1, !.tr = Append(t.tr, t.rip)]]

\* ptrace::step: the child runs one instruction and stops with SIGTRAP (or
\* terminates).  The debugger does not wait for that stop: `seen` says whether
\* the child has reached it by the debugger's next ptrace request.
ptrace_step(t, seen) ==
    IF ~Attached(t) THEN [ok |-> FALSE, t |-> t]
    ELSE LET s == ExecOne(t)
         IN  [ok |-> TRUE,
              t |-> IF s.ev = "exit" THEN s.t
                    ELSE [s.t EXCEPT !.st = IF seen THEN "stopped" ELSE "running"]]

\* A child left running by a single step reaches its stop on its own, at some
\* time after the command that stepped it has returned (ChildStops).
Settle(t) == IF t.st = "running" THEN [t EXCEPT !.st = "stopped"] ELSE t

\* What the kernel reports to waitpid.
RawStatus(kind, sig, code) == [kind |-> kind, sig |-> sig, code |-> code]

\* The child runs from ptrace::cont to its next event.  sg is a signal sent
\* from outside as the child is resumed: "none", "stop" (SIGINT, reported as a
\* signal-delivery stop) or "kill" (SIGKILL).
RECURSIVE RunOn(_)
RunOn(t) ==
    LET s == ExecOne(t)
    IN  IF s.ev = "trap"
        THEN [raw |-> RawStatus("Stopped", "SIGTRAP", 0), t |-> s.t]
        ELSE IF s.ev = "exit"
        THEN [raw |-> RawStatus("Exited", "", 0), t |-> s.t]
        ELSE RunOn(s.t)
RunFrom(t, sg) ==
    IF sg = "stop" THEN [raw |-> RawStatus("Stopped", "SIGINT", 0), t |-> t]
    ELSE IF sg = "kill"
    THEN [raw |-> RawStatus("Signaled", "SIGKILL", 0),
          t |-> [Gone("zombie") EXCEPT !.tr = t.tr]]
    ELSE RunOn(t)

NoSignal == "none"
Signals == {NoSignal, "stop", "kill"}

\* ------------------------------------------------------- inferior.rs: Status
Status(kind, sig, ip, code) == [kind |-> kind, sig |-> sig, ip |-> ip, code |-> code]
NoStatus == Status("", "", 0, 0)

\* ---------------------------------------------------- Inferior (inferior.rs)
\* bp_to_original_byte is a function from the installed addresses to bytes.
NoMap == [a \in {} |-> 0]
MapInsert(m, k, v) == [a \in DOMAIN m \cup {k} |-> IF a = k THEN v ELSE m[a]]

\* A write_byte whose mask clears the byte above addr too.
write_byte_wide(t, addr, val) ==
    LET aligned_addr == align_addr_to_word(addr)
        byte_offset == addr - aligned_addr
        rd == ptrace_read(t, aligned_addr)
        word == rd.word
        orig_byte == WAnd(Shr(word, 8 * byte_offset), U64(255))
        masked_word ==
            WAnd(word, WNot(Shl([i \in WordIdx |-> IF i <= 2 THEN 255 ELSE 0],
                                8 * byte_offset)))
        updated_word == WOr(masked_word, Shl(U64(val), 8 * byte_offset))
        wr == ptrace_write(t, aligned_addr, updated_word)
    IN  IF ~rd.ok THEN [ok |-> FALSE, t |-> t, byte |-> 0]
        ELSE IF ~wr.ok THEN [ok |-> FALSE, t |-> t, byte |-> 0]
        ELSE [ok |-> TRUE, t |-> wr.t, byte |-> AsU8(orig_byte)]

\* A write_byte that does not clear the byte before it sets the new one.
write_byte_unmasked(t, addr, val) ==
    LET aligned_addr == align_addr_to_word(addr)
        byte_offset == addr - aligned_addr
        rd == ptrace_read(t, aligned_addr)
        word == rd.word
        orig_byte == WAnd(Shr(word, 8 * byte_offset), U64(255))
        updated_word == WOr(word, Shl(U64(val), 8 * byte_offset))
        wr == ptrace_write(t, aligned_addr, updated_word)
    IN  IF ~rd.ok THEN [ok |-> FALSE, t |-> t, byte |-> 0]
        ELSE IF ~wr.ok THEN [ok |-> FALSE, t |-> t, byte |-> 0]
        ELSE [ok |-> TRUE, t |-> wr.t, byte |-> AsU8(orig_byte)]

\* Inferior::write_byte: returns Ok(orig_byte) and the patched tracee, or Err.
write_byte(t, addr, val) ==
    LET aligned_addr == align_addr_to_word(addr)
        byte_offset == addr - aligned_addr
        rd == ptrace_read(t, aligned_addr)
        word == rd.word
        orig_byte == WAnd(Shr(word, 8 * byte_offset), U64(255))
        masked_word == WAnd(word, WNot(Shl(U64(255), 8 * byte_offset)))
        updated_word == WOr(masked_word, Shl(U64(val), 8 * byte_offset))
        wr == ptrace_write(t, aligned_addr, updated_word)
    IN  IF ~rd.ok THEN [ok |-> FALSE, t |-> t, byte |-> 0]
        ELSE IF ~wr.ok THEN [ok |-> FALSE, t |-> t, byte |-> 0]
        ELSE [ok |-> TRUE, t |-> wr.t, byte |-> AsU8(orig_byte)]

\* Inferior::install_break_points: pops the pending addresses from the back;
\* an address whose patch fails has already been popped.
RECURSIVE install_break_points(_, _, _)
install_break_points(bp, t, break_points) ==
    IF break_points = <<>>
    THEN [ok |-> TRUE, bp |-> bp, t |-> t, break_points |-> break_points]
    ELSE LET addr == break_points[Len(break_points)]
             rest == SubSeq(break_points, 1, Len(break_points) - 1)
             w == write_byte(t, addr, TrapOp)
         IN  IF ~w.ok
             THEN [ok |-> FALSE, bp |-> bp, t |-> t, break_points |-> rest]
             ELSE install_break_points(MapInsert(bp, addr, w.byte), w.t, rest)

\* A wait that takes any report it does not know for a stop.
wait_lenient(r) ==
    IF r.raw.kind = "Exited"
    THEN [res |-> "Ok", status |-> Status("Exited", "", 0, r.raw.code),
          t |-> [Gone("reaped") EXCEPT !.tr = r.t.tr]]
    ELSE IF r.raw.kind = "Signaled"
    THEN [res |-> "Ok", status |-> Status("Signaled", r.raw.sig, 0, 0),
          t |-> [Gone("reaped") EXCEPT !.tr = r.t.tr]]
    ELSE LET regs == ptrace_getregs(r.t)
         IN  IF ~regs.ok THEN [res |-> "Err", status |-> NoStatus, t |-> r.t]
             ELSE [res |-> "Ok", status |-> Status("Stopped", r.raw.sig, regs.rip, 0),
                   t |-> r.t]

\* Inferior::wait after the child was resumed: r is the kernel's report and
\* the child's state at it.  Exited and Signaled reap the child.
wait(r) ==
    IF r.raw.kind = "Exited"
    THEN [res |-> "Ok", status |-> Status("Exited", "", 0, r.raw.code),
          t |-> [Gone("reaped") EXCEPT !.tr = r.t.tr]]
    ELSE IF r.raw.kind = "Signaled"
    THEN [res |-> "Ok", status |-> Status("Signaled", r.raw.sig, 0, 0),
          t |-> [Gone("reaped") EXCEPT !.tr = r.t.tr]]
    ELSE IF r.raw.kind = "Stopped"
    THEN LET regs == ptrace_getregs(r.t)
         IN  IF ~regs.ok THEN [res |-> "Err", status |-> NoStatus, t |-> r.t]
             ELSE [res |-> "Ok", status |-> Status("Stopped", r.raw.sig, regs.rip, 0),
                   t |-> r.t]
    ELSE [res |-> "Panic", status |-> NoStatus, t |-> r.t]

\* What continue_running had done when it issued ptrace::cont: whether it did
\* at all, whether it had rewound and single-stepped, and the pending
\* addresses, the installed addresses and the trapped addresses at that time.
Obs(resumed, stepped, pending, installed, traps) ==
    [resumed |-> resumed, stepped |-> stepped, pending |-> pending,
     installed |-> installed, traps |-> traps]
NoObs == Obs(FALSE, FALSE, {}, {}, {})
Range(q) == {q[i] : i \in 1..Len(q)}
TrapsIn(mem) == {a \in CodeAddrs : MemMapped(mem, a) /\ MemByte(mem, a) = TrapOp}

ContResult(res, status, bp, t, break_points, obs) ==
    [res |-> res, status |-> status, bp |-> bp, t |-> t,
     break_points |-> break_points, obs |-> obs]

\* The tail of continue_running: ptrace::cont, then self.wait(None) (w).
cr_waited(bp, t, break_points, stepped, w) ==
    ContResult(w.res, w.status, bp, w.t, break_points,
               Obs(TRUE, stepped, Range(break_points), DOMAIN bp, TrapsIn(t.mem)))

cont_and_wait(bp, t, break_points, stepped, sg) ==
    IF ~Attached(t)
    THEN ContResult("Err", NoStatus, bp, t, break_points,
                    Obs(FALSE, stepped, {}, {}, {}))
    ELSE cr_waited(bp, t, break_points, stepped, wait(RunFrom(t, sg)))

\* Inferior::continue_running.  env.seen: the single-stepped child has stopped
\* by the next ptrace request; env.sg: the outside signal of this run.  Each
\* stage below is the rest of the function after one fallible call (`?`).
\* After the second write_byte (w2), which re-arms the trap:
cr_rearmed(i, st, w2, env) ==
    IF ~w2.ok
    THEN ContResult("Err", NoStatus, i.bp, st.t, i.break_points,
                    Obs(FALSE, TRUE, {}, {}, {}))
    ELSE cont_and_wait(i.bp, w2.t, i.break_points, TRUE, env.sg)

\* After ptrace::setregs (sr) and ptrace::step (st):
cr_stepped(i, possible_bp_addr, w1, sr, st, env) ==
    IF ~sr.ok \/ ~st.ok
    THEN ContResult("Err", NoStatus, i.bp, w1.t, i.break_points, NoObs)
    ELSE cr_rearmed(i, st, write_byte(st.t, possible_bp_addr, TrapOp), env)

\* After the first write_byte (w1), which restores the original byte:
cr_restored(i, regs, w1, env) ==
    IF ~w1.ok
    THEN ContResult("Err", NoStatus, i.bp, i.t, i.break_points, NoObs)
    ELSE cr_stepped(i, regs.rip - 1, w1, ptrace_setregs(w1.t, regs.rip - 1),
                    ptrace_step(ptrace_setregs(w1.t, regs.rip - 1).t, env.seen),
                    env)

\* After ptrace::getregs (regs):
cr_regs(i, regs, env) ==
    IF ~regs.ok
    THEN ContResult("Err", NoStatus, i.bp, i.t, i.break_points, NoObs)
    ELSE IF (regs.rip - 1) \in DOMAIN i.bp
    THEN cr_restored(i, regs, write_byte(i.t, regs.rip - 1, i.bp[regs.rip - 1]), env)
    ELSE cont_and_wait(i.bp, i.t, i.break_points, FALSE, env.sg)

\* After install_break_points (i):
cr_installed(i, env) ==
    IF ~i.ok
    THEN ContResult("Err", NoStatus, i.bp, i.t, i.break_points, NoObs)
    ELSE cr_regs(i, ptrace_getregs(i.t), env)

\* A continue_running that resumes without installing what is pending.
continue_running_skips(bp, t, break_points, env) ==
    cr_installed([ok |-> TRUE, bp |-> bp, t |-> t, break_points |-> break_points],
                 env)

continue_running(bp, t, break_points, env) ==
    cr_installed(install_break_points(bp, t, break_points), env)

Envs == [seen : BOOLEAN, sg : Signals]
NoEnv == [seen |-> TRUE, sg |-> NoSignal]
\* Whether continue_running will single-step when every pending address
\* installs: only then does env.seen matter.
MaySteps(bp, t, break_points) ==
    (t.rip - 1) \in (DOMAIN bp \cup Range(break_points))

\* Inferior::kill: Child::kill (kill(2) on the pid: ESRCH once the child has
\* been reaped), then waitpid; both results are unwrapped with expect.  The
\* addresses come back in the HashMap's iteration order: `order` is that order.
kill(bp, t, order) ==
    IF t.st = "reaped" \/ t.st = "none"
    THEN [res |-> "Panic", t |-> t, addrs |-> <<>>]
    ELSE [res |-> "Ok", t |-> Gone("reaped"), addrs |-> order]

\* The orders in which a set can be listed.
Orders(S) ==
    {q \in [1..Cardinality(S) -> S] : \A i, j \in 1..Cardinality(S) : q[i] = q[j] => i = j}

\* The memory of a freshly exec'ed child: the code, and a zeroed stack.
Image ==
    [w \in MappedWords |->
       [i \in WordIdx |-> IF w \in CodeWords THEN OrigByte(w + i - 1) ELSE 0]]
FreshTracee == Tracee("stopped", Image, Entry, 0, <<>>)

\* What the first waitpid after spawn may report: the exec stop (SIGTRAP),
\* a stop by another signal, or the child's death.
ExecStop == RawStatus("Stopped", "SIGTRAP", 0)
FirstWaits ==
    {ExecStop, RawStatus("Stopped", "SIGINT", 0),
     RawStatus("Exited", "", 1), RawStatus("Signaled", "SIGKILL", 0),
     RawStatus("PtraceEvent", "SIGTRAP", 0)}
\* No waitpid was made.
NoFirst == RawStatus("", "", 0)
\* A child that was reported stopped is still alive.
StillThere(first) == first.kind \in {"Stopped", "PtraceEvent"}

\* An Inferior::new that takes a stop by any signal for the exec stop.
new_any_stop(break_points, spawn_ok, first) ==
    IF ~spawn_ok
    THEN [res |-> "Panic", bp |-> NoMap, t |-> NoTracee,
          break_points |-> break_points, spawned |-> FALSE, left |-> FALSE,
          first |-> NoFirst]
    ELSE IF first.kind = "Stopped"
    THEN LET i == install_break_points(NoMap, FreshTracee, break_points)
         IN  [res |-> IF i.ok THEN "Some" ELSE "None", bp |-> i.bp, t |-> i.t,
              break_points |-> i.break_points, spawned |-> TRUE, left |-> TRUE,
              first |-> first]
    ELSE [res |-> "None", bp |-> NoMap, t |-> NoTracee,
          break_points |-> break_points, spawned |-> TRUE,
          left |-> StillThere(first), first |-> first]

\* Inferior::new.  spawn_ok: Command::spawn succeeds; first: the report of the
\* first waitpid.  res is "Some", "None" or "Panic"; left says whether a child
\* was spawned and is still alive when new returns.
new(break_points, spawn_ok, first) ==
    IF ~spawn_ok
    THEN [res |-> "Panic", bp |-> NoMap, t |-> NoTracee,
          break_points |-> break_points, spawned |-> FALSE, left |-> FALSE,
          first |-> NoFirst]
    ELSE IF first.kind = "Stopped" /\ first.sig = "SIGTRAP"
    THEN LET i == install_break_points(NoMap, FreshTracee, break_points)
         IN  [res |-> IF i.ok THEN "Some" ELSE "None", bp |-> i.bp, t |-> i.t,
              break_points |-> i.break_points, spawned |-> TRUE, left |-> TRUE,
              first |-> first]
    ELSE [res |-> "None", bp |-> NoMap, t |-> NoTracee,
          break_points |-> break_points, spawned |-> TRUE,
          left |-> StillThere(first), first |-> first]

\* ------------------------------------------------------------- DwarfData
\* The symbol data of the target (crate::dwarf_data): for each code address
\* the function holding it ("" for none) and its source line (0 for none).
NoAddr == 0 - 1
Min(S) == CHOOSE x \in S : \A y \in S : x <= y
get_line_from_addr(dd, addr) ==
    IF addr \in DOMAIN dd.line THEN dd.line[addr] ELSE 0
get_function_from_addr(dd, addr) ==
    IF addr \in DOMAIN dd.func THEN dd.func[addr] ELSE ""
get_addr_for_function(dd, name) ==
    LET S == {a \in DOMAIN dd.func : dd.func[a] = name}
    IN  IF name = "" \/ S = {} THEN NoAddr ELSE Min(S)
get_addr_for_line(dd, n) ==
    LET S == {a \in DOMAIN dd.line : dd.line[a] = n}
    IN  IF n = 0 \/ S = {} THEN NoAddr ELSE Min(S)

\* The symbol data of the straight-line program: the instruction at Entry is
\* start-up code without symbols, main is what follows it, one source line per
\* instruction; the bytes before Entry have no symbols either.
MainDebug ==
    [func |-> [a \in CodeAddrs |-> IF a > Entry /\ a <= ExitAddr THEN "main" ELSE ""],
     line |-> [a \in CodeAddrs |-> IF a > Entry /\ a <= ExitAddr THEN a - Entry ELSE 0]]

\* ----------------------------------------------- debugger.rs: parse_address
\* A string is the sequence of its characters.
HexLower == <<"0", "1", "2", "3", "4", "5", "6", "7", "8", "9",
              "a", "b", "c", "d", "e", "f">>
HexUpper == <<"0", "1", "2", "3", "4", "5", "6", "7", "8", "9",
              "A", "B", "C", "D", "E", "F">>
IsDigit(c, radix) ==
    \E v \in 1..radix : HexLower[v] = c \/ HexUpper[v] = c
DigitVal(c) == (CHOOSE v \in 1..16 : HexLower[v] = c \/ HexUpper[v] = c) - 1
\* str::to_lowercase on the letters of ASCII: every capital letter becomes its
\* small letter, every other character stays.
UpperCase == <<"A", "B", "C", "D", "E", "F", "G", "H", "I", "J", "K", "L", "M",
               "N", "O", "P", "Q", "R", "S", "T", "U", "V", "W", "X", "Y", "Z">>
LowerCase == <<"a", "b", "c", "d", "e", "f", "g", "h", "i", "j", "k", "l", "m",
               "n", "o", "p", "q", "r", "s", "t", "u", "v", "w", "x", "y", "z">>
to_lowercase(str) ==
    [i \in 1..Len(str) |->
       IF \E v \in 1..Len(UpperCase) : UpperCase[v] = str[i]
       THEN LowerCase[CHOOSE v \in 1..Len(UpperCase) : UpperCase[v] = str[i]]
       ELSE str[i]]
starts_with(str, pre) ==
    Len(str) >= Len(pre) /\ SubSeq(str, 1, Len(pre)) = pre
Slice(str, from) == SubSeq(str, from + 1, Len(str))

RECURSIVE DigitsVal(_, _, _)
DigitsVal(str, radix, acc) ==
    IF str = <<>> THEN acc
    ELSE DigitsVal(Tail(str), radix, acc * radix + DigitVal(Head(str)))

\* The digits of usize::MAX (2^64 - 1) in radix 16 and in radix 10.
UsizeMaxDigits(radix) ==
    IF radix = 16 THEN [i \in 1..16 |-> 15]
    ELSE <<1, 8, 4, 4, 6, 7, 4, 4, 0, 7, 3, 7, 0, 9, 5, 5, 1, 6, 1, 5>>
RECURSIVE StripZeros(_)
StripZeros(ds) ==
    IF ds # <<>> /\ Head(ds) = 0 THEN StripZeros(Tail(ds)) ELSE ds
\* Whether the numeral is worth more than usize::MAX, where the checked
\* multiplication or addition of from_str_radix fails (PosOverflow).
PosOverflow(digits, radix) ==
    LET v == StripZeros([i \in 1..Len(digits) |-> DigitVal(digits[i])])
        m == UsizeMaxDigits(radix)
    IN  \/ Len(v) > Len(m)
        \/ /\ Len(v) = Len(m)
           /\ \E i \in 1..Len(v) : v[i] > m[i] /\ \A j \in 1..(i - 1) : v[j] = m[j]

\* usize::from_str_radix / str::parse::<usize>: an optional "+", then at least
\* one digit of the radix, worth at most usize::MAX; NoAddr stands for Err.
from_str_radix(str, radix) ==
    LET digits == IF str # <<>> /\ Head(str) = "+" THEN Tail(str) ELSE str
    IN  IF digits = <<>> \/ \E i \in 1..Len(digits) : ~IsDigit(digits[i], radix)
        THEN NoAddr
        ELSE IF PosOverflow(digits, radix) THEN NoAddr
        ELSE DigitsVal(digits, radix, 0)

\* ParseAddressRes: Addr(n), LineNumber(n), FunctionName(s) or FalseAddr.
ParseAddressRes(kind, n, name) == [kind |-> kind, n |-> n, name |-> name]

\* A parse_address that reads the digits after "*" as decimal.
parse_address_decimal(addr) ==
    IF starts_with(addr, <<"*">>)
    THEN LET digits == IF starts_with(to_lowercase(Slice(addr, 1)), <<"0", "x">>)
                       THEN Slice(addr, 3) ELSE Slice(addr, 1)
             n == from_str_radix(digits, 10)
         IN  IF n # NoAddr THEN ParseAddressRes("Addr", n, <<>>)
             ELSE ParseAddressRes("FalseAddr", 0, <<>>)
    ELSE LET line_number == from_str_radix(addr, 10)
         IN  IF line_number # NoAddr THEN ParseAddressRes("LineNumber", line_number, <<>>)
             ELSE ParseAddressRes("FunctionName", 0, addr)

parse_address(addr) ==
    IF starts_with(addr, <<"*">>)
    THEN LET digits == IF starts_with(to_lowercase(Slice(addr, 1)), <<"0", "x">>)
                       THEN Slice(addr, 3) ELSE Slice(addr, 1)
             n == from_str_radix(digits, 16)
         IN  IF n # NoAddr THEN ParseAddressRes("Addr", n, <<>>)
             ELSE ParseAddressRes("FalseAddr", 0, <<>>)
    ELSE LET line_number == from_str_radix(addr, 10)
         IN  IF line_number # NoAddr THEN ParseAddressRes("LineNumber", line_number, <<>>)
             ELSE ParseAddressRes("FunctionName", 0, addr)

\* The names the symbol data knows, as strings of characters.
NameOf(chars) ==
    IF chars = <<"m", "a", "i", "n">> THEN "main"
    ELSE IF chars = <<"f">> THEN "f"
    ELSE IF chars = <<"g">> THEN "g"
    ELSE ""

\* Debugger::run, DebuggerCommand::Break: the address the specification
\* resolves to, or NoAddr for "Bad breakpoint!".
resolve_break(dd, str) ==
    LET p == parse_address(str)
    IN  IF p.kind = "Addr" THEN p.n
        ELSE IF p.kind = "FalseAddr" THEN NoAddr
        ELSE IF p.kind = "FunctionName" THEN get_addr_for_function(dd, NameOf(p.name))
        ELSE get_addr_for_line(dd, p.n)

\* The break specifications the operator types.
BreakSpecs ==
    {<<"*", "0">>, <<"*", "0", "X", "d">>, <<"m", "a", "i", "n">>, <<"1">>,
     <<"*", "f">>, <<"*", "z", "z">>, <<"n", "o", "f", "n">>, <<"9", "9">>}

\* ------------------------------------------------------ the debugger's state
VARIABLES
    dbg,            \* "prompt", "backtrace" (inside print_backtrace), "quit", "panicked"
    inferior,       \* Debugger::inferior: [some, pid, bp] (bp: bp_to_original_byte)
    break_points,   \* Debugger::break_points, the pending addresses
    tracee,         \* the child the session's inferior refers to
    alive,          \* the pids of the spawned children that have not terminated
    nspawn,         \* the number of children spawned so far
    debug_data,     \* Debugger::debug_data
    bt,             \* the loop variables of print_backtrace
    hist            \* what the last command did, for the properties below

vars == <<dbg, inferior, break_points, tracee, alive, nspawn, debug_data, bt, hist>>

Inferior(some, pid, bp) == [some |-> some, pid |-> pid, bp |-> bp]
NoInferior == Inferior(FALSE, 0, NoMap)

Bt(pc, rip, rbp, frames, reads, res) ==
    [pc |-> pc, rip |-> rip, rbp |-> rbp, frames |-> frames, reads |-> reads,
     res |-> res, tick |-> 0]
BtIdle == Bt("idle", 0, 0, <<>>, 0, "")

Count(q, x) == Cardinality({i \in 1..Len(q) : q[i] = x})
Live(t) == t.st \in {"stopped", "running"}

\* hist.  Of the last command: cmd; the message it printed (msg); the status
\* continue_running returned (status); what continue_running had done at its
\* ptrace::cont (obs); whether installing the pending addresses failed
\* (installFailed); the breakpoint whose trap had halted the inferior when the
\* command began (fromTrap); how often the real instruction at fromTrap ran
\* (execs); whether a kill or ptrace call went to a child whose termination a
\* wait had reported (deadCall); the text given to break or parse_address (arg)
\* and what parse_address made of it (parsed); the report given to
\* Inferior::wait (raw); the arguments and results of one write_byte (wb).
\* trapAt: the breakpoint whose trap halts the inferior now.
\* Of a run or continue: the addresses installed (priorInstalled) and pending
\* (priorPending) when it began.  Of a run: whether the command before it was
\* a run too (afterRun), whether the session held an inferior (hadPrior), a
\* stopped one (heldStopped), and its installed map (priorMap) when the run
\* began; the report of the first waitpid of Inferior::new (first); whether
\* Inferior::new returned an inferior (newSome), its installed map when it did
\* (spawnMap) and the addresses of it with the trap in memory (atSpawn).
\* preRun: the addresses set by break before the first run (a run spawns a
\* child or ends the session, so that is while nspawn = 0), kept until a
\* command other than the two runs that follow.  mem0: the child's memory
\* before the patch of PatchOne or the write of WriteOne.
HistInit ==
    [cmd |-> "", msg |-> "", status |-> NoStatus, obs |-> NoObs,
     first |-> NoFirst, raw |-> [kind |-> "", sig |-> "", code |-> 0], arg |-> <<>>,
     parsed |-> ParseAddressRes("", 0, <<>>),
     wb |-> [ok |-> FALSE, addr |-> 0, val |-> 0, byte |-> 0],
     priorMap |-> NoMap, spawnMap |-> NoMap,
     installFailed |-> FALSE, fromTrap |-> NoAddr, execs |-> 0,
     deadCall |-> FALSE, trapAt |-> NoAddr, afterRun |-> FALSE,
     heldStopped |-> FALSE,
     hadPrior |-> FALSE, priorInstalled |-> {}, priorPending |-> {},
     newSome |-> FALSE, atSpawn |-> {}, preRun |-> {}, mem0 |-> NoMem]

HistNext(cmd) ==
    [hist EXCEPT !.cmd = cmd, !.msg = "", !.status = NoStatus,
                 !.first = NoFirst, !.arg = <<>>,
                 !.priorMap = NoMap, !.spawnMap = NoMap,
                 !.obs = NoObs, !.installFailed = FALSE, !.fromTrap = NoAddr,
                 !.execs = 0, !.deadCall = FALSE, !.afterRun = FALSE,
                 !.heldStopped = FALSE, !.hadPrior = FALSE,
                 !.priorInstalled = {}, !.priorPending = {},
                 !.newSome = FALSE, !.atSpawn = {},
                 !.preRun = IF (cmd = "break" /\ nspawn = 0) \/ (cmd = "run" /\ nspawn <= 1)
                            THEN hist.preRun ELSE {}]

\* The breakpoint whose trap halts the inferior after continue_running
\* returned c, having been halted by `before`.
TrapAfter(c, before) ==
    IF c.res = "Ok"
    THEN IF c.status.kind = "Stopped" /\ c.status.sig = "SIGTRAP"
         THEN c.status.ip - 1 ELSE NoAddr
    ELSE IF c.obs.stepped THEN NoAddr ELSE before

\* The state a command leaves.
Post(d, inf, bps, t, al, n, h) ==
    [dbg |-> d, inferior |-> inf, break_points |-> bps, tracee |-> t, alive |-> al,
     nspawn |-> n, hist |-> h]
Apply(r) ==
    /\ dbg' = r.dbg
    /\ inferior' = r.inferior
    /\ break_points' = r.break_points
    /\ tracee' = [r.tracee EXCEPT !.tr = <<>>]
    /\ alive' = r.alive
    /\ nspawn' = r.nspawn
    /\ hist' = r.hist
    /\ bt' = BtIdle
    /\ UNCHANGED debug_data

\* The message Debugger::run prints for the result of continue_running in Run.
RunMsg(c) ==
    IF c.res = "Err" THEN "failed to continue to run"
    ELSE IF c.res = "Panic" THEN "waitpid returned unexpected status"
    ELSE IF c.status.kind = "Exited" THEN "Exited with code"
    ELSE IF c.status.kind = "Signaled" THEN "Signaled with signal"
    ELSE "Stoped by signal"

\* DebuggerCommand::Run.  hist after it, before what Inferior::new and
\* continue_running add:
RunHist ==
    [HistNext("run") EXCEPT
       !.trapAt = NoAddr,
       !.afterRun = hist.cmd = "run",
       !.hadPrior = inferior.some,
       !.heldStopped = inferior.some /\ tracee.st = "stopped",
       !.priorInstalled = DOMAIN inferior.bp,
       !.priorMap = inferior.bp,
       !.priorPending = Range(break_points),
       !.deadCall = inferior.some /\ tracee.st = "reaped"]
AliveAfterKill == IF inferior.some THEN alive \ {inferior.pid} ELSE alive

\* After continue_running (c) on the new inferior n:
run_continued(n, c) ==
    Post(IF c.res = "Panic" THEN "panicked" ELSE "prompt",
         Inferior(TRUE, nspawn + 1, c.bp), c.break_points, c.t,
         IF Live(c.t) THEN AliveAfterKill \cup {nspawn + 1} ELSE AliveAfterKill,
         nspawn + 1,
         [RunHist EXCEPT !.msg = RunMsg(c),
                         !.status = c.status, !.obs = c.obs,
                         !.trapAt = TrapAfter(c, NoAddr),
                         !.newSome = TRUE, !.first = n.first,
                         !.atSpawn = DOMAIN n.bp \cap TrapsIn(n.t.mem),
                         !.spawnMap = n.bp])

\* A run that hands the bytes recorded in the prior inferior on to the new one.
run_spawned_carries(k, n, env) ==
    IF n.res = "Panic"
    THEN Post("panicked", NoInferior, k.addrs, NoTracee, AliveAfterKill, nspawn,
              [RunHist EXCEPT !.msg = "spawn shit!"])
    ELSE IF n.res = "None"
    THEN Post("prompt", NoInferior, n.break_points, NoTracee,
              IF n.left THEN AliveAfterKill \cup {nspawn + 1} ELSE AliveAfterKill,
              nspawn + 1,
              [RunHist EXCEPT !.msg = "Error starting subprocess",
                              !.first = n.first])
    ELSE run_continued([n EXCEPT !.bp = [a \in DOMAIN n.bp |->
                                           IF a \in DOMAIN inferior.bp
                                           THEN inferior.bp[a] ELSE n.bp[a]]],
                       continue_running(
                           [a \in DOMAIN n.bp |->
                              IF a \in DOMAIN inferior.bp THEN inferior.bp[a] ELSE n.bp[a]],
                           n.t, n.break_points, env))

\* After Inferior::new (n), the prior inferior killed (k):
run_spawned(k, n, env) ==
    IF n.res = "Panic"
    THEN Post("panicked", NoInferior, k.addrs, NoTracee, AliveAfterKill, nspawn,
              [RunHist EXCEPT !.msg = "spawn shit!"])
    ELSE IF n.res = "None"
    THEN Post("prompt", NoInferior, n.break_points, NoTracee,
              IF n.left THEN AliveAfterKill \cup {nspawn + 1} ELSE AliveAfterKill,
              nspawn + 1,
              [RunHist EXCEPT !.msg = "Error starting subprocess",
                              !.first = n.first])
    ELSE run_continued(n, continue_running(n.bp, n.t, n.break_points, env))

\* After self.inferior.take().map(kill) (k):
run_killed(k, spawn_ok, first, env) ==
    IF k.res = "Panic"
    THEN Post("panicked", NoInferior, break_points, tracee, alive, nspawn,
              [RunHist EXCEPT !.msg = "failed to kill process"])
    ELSE run_spawned(k, new(k.addrs, spawn_ok, first), env)

run_command(order, spawn_ok, first, env) ==
    run_killed(IF inferior.some THEN kill(inferior.bp, tracee, order)
               ELSE [res |-> "Ok", t |-> NoTracee, addrs |-> break_points],
               spawn_ok, first, env)

Run ==
    /\ dbg = "prompt"
    /\ nspawn < MaxSpawn
    /\ \E order \in Orders(DOMAIN inferior.bp), spawn_ok \in BOOLEAN,
          first \in FirstWaits, env \in Envs :
           \* choices that are not consulted are not enumerated
           /\ ~spawn_ok => first = ExecStop
           /\ (~spawn_ok \/ first # ExecStop) => env = NoEnv
           /\ ~env.seen => MaySteps(NoMap, FreshTracee, break_points \o order)
           /\ Apply(run_command(order, spawn_ok, first, env))

\* DebuggerCommand::Cont.  After continue_running (c); installed says whether
\* its install_break_points succeeded.
cont_continued(c, installed) ==
    Post(IF c.res = "Panic" THEN "panicked" ELSE "prompt",
         Inferior(TRUE, inferior.pid, c.bp), c.break_points, c.t,
         IF Live(c.t) THEN alive ELSE alive \ {inferior.pid}, nspawn,
         [HistNext("cont") EXCEPT
            !.msg = IF c.res = "Err" THEN "Error continuing process" ELSE "",
            !.status = c.status, !.obs = c.obs,
            !.installFailed = ~installed,
            !.fromTrap = hist.trapAt,
            !.priorPending = Range(break_points),
            !.priorInstalled = DOMAIN inferior.bp,
            !.execs = Count(c.t.tr, hist.trapAt),
            !.deadCall = tracee.st = "reaped",
            !.trapAt = TrapAfter(c, hist.trapAt)])

cont_command(env) ==
    IF ~inferior.some
    THEN Post("prompt", inferior, break_points, tracee, alive, nspawn,
              [HistNext("cont") EXCEPT !.msg = "Nothing running!"])
    ELSE cont_continued(continue_running(inferior.bp, tracee, break_points, env),
                        install_break_points(inferior.bp, tracee, break_points).ok)

Cont ==
    /\ dbg = "prompt"
    /\ \E env \in Envs :
           /\ ~inferior.some => env = NoEnv
           /\ ~env.seen => MaySteps(inferior.bp, tracee, break_points)
           /\ Apply(cont_command(env))

\* DebuggerCommand::Quit.
QuitHist ==
    [HistNext("quit") EXCEPT !.deadCall = inferior.some /\ tracee.st = "reaped",
                             !.trapAt = NoAddr]
quit_killed(k) ==
    IF k.res = "Panic"
    THEN Post("panicked", NoInferior, break_points, tracee, alive, nspawn,
              [QuitHist EXCEPT !.msg = "failed to kill process"])
    ELSE Post("quit", NoInferior, break_points, NoTracee,
              alive \ {inferior.pid}, nspawn, QuitHist)
quit_command(order) ==
    IF ~inferior.some
    THEN Post("quit", inferior, break_points, tracee, alive, nspawn, QuitHist)
    ELSE quit_killed(kill(inferior.bp, tracee, order))

Quit ==
    /\ dbg = "prompt"
    /\ \E order \in Orders(DOMAIN inferior.bp) : Apply(quit_command(order))

\* A Break that pushes whatever the lookup gave, found or not.
break_command_unchecked(str) ==
    LET addr == resolve_break(debug_data, str)
        h0 == [HistNext("break") EXCEPT !.arg = str]
    IN  Post("prompt", inferior, Append(break_points, addr), tracee, alive,
             nspawn,
             [h0 EXCEPT !.msg = IF addr = NoAddr THEN "Bad breakpoint!"
                                ELSE "Set breakpoint at",
                        !.preRun = IF nspawn = 0 /\ addr # NoAddr
                                   THEN hist.preRun \cup {addr} ELSE {}])

\* DebuggerCommand::Break.
break_command(str) ==
    LET addr == resolve_break(debug_data, str)
        h0 == [HistNext("break") EXCEPT !.arg = str]
    IN  IF addr = NoAddr
        THEN Post("prompt", inferior, break_points, tracee, alive, nspawn,
                  [h0 EXCEPT !.msg = "Bad breakpoint!"])
        ELSE Post("prompt", inferior, Append(break_points, addr), tracee, alive,
                  nspawn,
                  [h0 EXCEPT !.msg = "Set breakpoint at",
                             !.preRun = IF nspawn = 0 THEN hist.preRun \cup {addr}
                                        ELSE {}])

Break ==
    /\ dbg = "prompt"
    /\ Len(break_points) < MaxPending
    /\ \E str \in BreakSpecs : Apply(break_command(str))

\* --------------------------------------------- Inferior::print_backtrace
\* The frames printed and the reads made are recorded up to a bound; tick
\* alternates with every iteration that goes round the loop again.
Emit(frames, name) == IF Len(frames) < MaxEmit THEN Append(frames, name) ELSE frames
CountRead(n) == IF n < 2 * MaxEmit THEN n + 1 ELSE n

\* print_function_line: prints and returns the function's name, or fails when
\* the line or the function of rip is unknown.
print_function_line(rip, dd) ==
    IF get_line_from_addr(dd, rip) = 0 THEN [ok |-> FALSE, name |-> ""]
    ELSE IF get_function_from_addr(dd, rip) = "" THEN [ok |-> FALSE, name |-> ""]
    ELSE [ok |-> TRUE, name |-> get_function_from_addr(dd, rip)]

\* print_backtrace up to its loop: ptrace::getregs.
bt_start(t) ==
    LET regs == ptrace_getregs(t)
    IN  IF ~regs.ok THEN Bt("idle", 0, 0, <<>>, 0, "Err")
        ELSE Bt("loop", regs.rip, regs.rbp, <<>>, 0, "")

\* An iteration that does not break at main.
bt_iter_past_main(b, t, dd) ==
    LET p == print_function_line(b.rip, dd)
        frames == Emit(b.frames, p.name)
        r1 == ptrace_read(t, b.rbp + 8)
        r2 == ptrace_read(t, b.rbp)
    IN  IF ~p.ok THEN [b EXCEPT !.pc = "idle", !.res = "Err"]
        ELSE IF ~r1.ok
        THEN [b EXCEPT !.pc = "idle", !.res = "Err", !.frames = frames]
        ELSE IF ~r2.ok
        THEN [b EXCEPT !.pc = "idle", !.res = "Err", !.frames = frames,
                       !.reads = CountRead(b.reads)]
        ELSE [b EXCEPT !.frames = frames, !.rip = ToNat(r1.word),
                       !.rbp = ToNat(r2.word),
                       !.reads = CountRead(CountRead(b.reads)),
                       !.tick = 1 - b.tick]

\* One iteration of the loop of print_backtrace.
bt_iter(b, t, dd) ==
    LET p == print_function_line(b.rip, dd)
        frames == Emit(b.frames, p.name)
        r1 == ptrace_read(t, b.rbp + 8)
        r2 == ptrace_read(t, b.rbp)
    IN  IF ~p.ok THEN [b EXCEPT !.pc = "idle", !.res = "Err"]
        ELSE IF p.name = "main"
        THEN [b EXCEPT !.pc = "idle", !.res = "Ok", !.frames = frames]
        ELSE IF ~r1.ok
        THEN [b EXCEPT !.pc = "idle", !.res = "Err", !.frames = frames]
        ELSE IF ~r2.ok
        THEN [b EXCEPT !.pc = "idle", !.res = "Err", !.frames = frames,
                       !.reads = CountRead(b.reads)]
        ELSE [b EXCEPT !.frames = frames, !.rip = ToNat(r1.word),
                       !.rbp = ToNat(r2.word),
                       !.reads = CountRead(CountRead(b.reads)),
                       !.tick = 1 - b.tick]

\* DebuggerCommand::Backtrace: enters print_backtrace when there is an
\* inferior; its result is dropped.
Backtrace ==
    /\ dbg = "prompt"
    /\ bt' = IF inferior.some THEN bt_start(tracee) ELSE BtIdle
    /\ dbg' = IF bt'.pc = "loop" THEN "backtrace" ELSE "prompt"
    /\ hist' = [HistNext("bt") EXCEPT !.deadCall = inferior.some /\ tracee.st = "reaped"]
    /\ UNCHANGED <<inferior, break_points, tracee, alive, nspawn, debug_data>>

BtStep ==
    /\ dbg = "backtrace"
    /\ bt' = bt_iter(bt, tracee, debug_data)
    /\ dbg' = IF bt'.pc = "loop" THEN "backtrace" ELSE "prompt"
    /\ UNCHANGED <<inferior, break_points, tracee, alive, nspawn, debug_data, hist>>

\* The child that an unwaited ptrace::step left running reaches the stop of
\* that step while the debugger is at its prompt; nothing in the debugger
\* waits for it, so a command may come before or after.
ChildStops ==
    /\ dbg = "prompt"
    /\ tracee.st = "running"
    /\ tracee' = Settle(tracee)
    /\ UNCHANGED <<dbg, inferior, break_points, alive, nspawn, debug_data, bt, hist>>

\* ------------------------------------------------------- the debugger session
Init ==
    /\ dbg = "prompt"
    /\ inferior = NoInferior
    /\ break_points = <<>>
    /\ tracee = NoTracee
    /\ alive = {}
    /\ nspawn = 0
    /\ debug_data = MainDebug
    /\ bt = BtIdle
    /\ hist = HistInit

Next == Run \/ Cont \/ Break \/ Backtrace \/ BtStep \/ Quit \/ ChildStops

Spec == Init /\ [][Next]_vars

\* ------------------------------------------- write_byte on arbitrary words
\* A stopped inferior whose first code word holds arbitrary bytes; one byte of
\* it is patched with the trap as install_break_points does, then restored as
\* continue_running does.
PatchBytes == {85, 204, 255}
PatchAddrs == CodeBase..(CodeBase + WordSize - 1)

InitPatch ==
    /\ dbg = "prompt"
    /\ inferior = Inferior(TRUE, 1, NoMap)
    /\ break_points = <<>>
    /\ \E w \in [WordIdx -> PatchBytes] :
          tracee = [FreshTracee EXCEPT !.mem[CodeBase] = w]
    /\ alive = {1}
    /\ nspawn = 1
    /\ debug_data = MainDebug
    /\ bt = BtIdle
    /\ hist = HistInit

PatchOne ==
    /\ hist.cmd = ""
    /\ \E addr \in PatchAddrs :
          LET i == install_break_points(inferior.bp, tracee, <<addr>>)
          IN  /\ inferior' = [inferior EXCEPT !.bp = i.bp]
              /\ tracee' = i.t
              /\ hist' = [hist EXCEPT !.cmd = "patch", !.mem0 = tracee.mem]
    /\ UNCHANGED <<dbg, break_points, alive, nspawn, debug_data, bt>>

RestoreOne ==
    /\ hist.cmd = "patch"
    /\ \E addr \in DOMAIN inferior.bp :
          LET w == write_byte(tracee, addr, inferior.bp[addr])
          IN  /\ tracee' = w.t
              /\ hist' = [hist EXCEPT !.cmd = "restore"]
    /\ UNCHANGED <<dbg, inferior, break_points, alive, nspawn, debug_data, bt>>

\* One write_byte of any of PatchVals at any byte of the word.
PatchVals == {0, 171}
WriteOne ==
    /\ hist.cmd = ""
    /\ \E addr \in PatchAddrs, val \in PatchVals :
          LET w == write_byte(tracee, addr, val)
          IN  /\ tracee' = w.t
              /\ hist' = [hist EXCEPT !.cmd = "write", !.mem0 = tracee.mem,
                                       !.wb = [ok |-> w.ok, addr |-> addr,
                                               val |-> val, byte |-> w.byte]]
    /\ UNCHANGED <<dbg, inferior, break_points, alive, nspawn, debug_data, bt>>

NextPatch == PatchOne \/ RestoreOne \/ WriteOne

SpecPatch == InitPatch /\ [][NextPatch]_vars

\* ------------------------------------------- Inferior::wait on arbitrary reports
\* What waitpid may return (nix's WaitStatus), and the child at that time: a
\* child reported stopped is in ptrace-stop, unless it was killed from outside
\* before its registers are read.
WaitKinds ==
    {"Exited", "Signaled", "Stopped", "PtraceEvent", "PtraceSyscall", "Continued",
     "StillAlive"}
WaitSignals == {"SIGTRAP", "SIGINT", "SIGKILL", "SIGSEGV"}
ExitCodes == {0, 1, 7}
WaitReports ==
    {RawStatus("Exited", "", c) : c \in ExitCodes}
    \cup {RawStatus(k, sg, 0) : k \in WaitKinds \ {"Exited"}, sg \in WaitSignals}
ChildAt(raw, rip, killed) ==
    IF raw.kind \in {"Exited", "Signaled"} \/ killed THEN Gone("zombie")
    ELSE [FreshTracee EXCEPT !.rip = rip]

InitWait ==
    /\ dbg = "prompt"
    /\ inferior = Inferior(TRUE, 1, NoMap)
    /\ break_points = <<>>
    /\ nspawn = 1
    /\ debug_data = MainDebug
    /\ bt = BtIdle
    /\ \E raw \in WaitReports, rip \in CodeAddrs, killed \in BOOLEAN :
          /\ tracee = ChildAt(raw, rip, killed)
          /\ alive = IF Live(tracee) THEN {1} ELSE {}
          /\ hist = [HistInit EXCEPT !.raw = raw]

WaitOne ==
    /\ hist.cmd = ""
    /\ LET w == wait([raw |-> hist.raw, t |-> tracee])
       IN  /\ dbg' = IF w.res = "Panic" THEN "panicked" ELSE "prompt"
           /\ tracee' = w.t
           /\ hist' = [hist EXCEPT !.cmd = "wait", !.status = w.status,
                                    !.msg = IF w.res = "Panic"
                                            THEN "waitpid returned unexpected status"
                                            ELSE w.res]
    /\ alive' = IF Live(tracee') THEN alive ELSE {}
    /\ UNCHANGED <<inferior, break_points, nspawn, debug_data, bt>>

NextWait == WaitOne

SpecWait == InitWait /\ [][NextWait]_vars

\* ------------------------------------------- parse_address on arbitrary strings
\* The strings of up to MaxStr characters over ParseChars, and the examples of
\* the specification.
ParseChars == {"*", "0", "x", "X", "1", "F", "g", "+"}
ParseExamples ==
    {<<"*", "0", "x", "1", "0", "0", "0">>, <<"*", "1", "0", "0", "0">>,
     <<"4", "2">>, <<"m", "a", "i", "n">>, <<"*", "0", "X", "F", "F">>,
     <<"*", "0", "x", "G">>, <<"M", "A", "I", "N">>,
     \* 2^64 in hexadecimal and in decimal, and 1 behind eighteen zeros
     <<"*", "1">> \o [i \in 1..16 |-> "0"],
     <<"1", "8", "4", "4", "6", "7", "4", "4", "0", "7", "3", "7", "0", "9", "5",
       "5", "1", "6", "1", "6">>,
     <<"*">> \o [i \in 1..18 |-> "0"] \o <<"1">>}
ParseInputs ==
    ParseExamples \cup UNION {[1..n -> ParseChars] : n \in 0..MaxStr}

InitParse ==
    /\ dbg = "prompt"
    /\ inferior = NoInferior
    /\ break_points = <<>>
    /\ tracee = NoTracee
    /\ alive = {}
    /\ nspawn = 0
    /\ debug_data = MainDebug
    /\ bt = BtIdle
    /\ \E str \in ParseInputs : hist = [HistInit EXCEPT !.arg = str]

ParseOne ==
    /\ hist.cmd = ""
    /\ hist' = [hist EXCEPT !.cmd = "parse", !.parsed = parse_address(hist.arg)]
    /\ UNCHANGED <<dbg, inferior, break_points, tracee, alive, nspawn, debug_data, bt>>

NextParse == ParseOne

SpecParse == InitParse /\ [][NextParse]_vars

\* ------------------------------------------- print_backtrace on arbitrary stacks
\* Frame k of the stack lies at FrameAt(k): the saved frame pointer, and one
\* word above it the return address.
FrameAt(k) == StackBase + 2 * WordSize * k
\* What a frame's saved frame pointer may hold: the next frame (0, unmapped,
\* in the last one), the first frame (a cycle), or 0.
SavedOpts(k) == {IF k + 1 < MaxFrames THEN FrameAt(k + 1) ELSE 0, FrameAt(0), 0}
\* What a return address may hold: an address of g, of f, of main, or one
\* without symbols.
RetOpts == Entry..(Entry + 3)
BtDebug ==
    [func |-> [a \in CodeAddrs |-> IF a = Entry THEN "g"
                                  ELSE IF a = Entry + 1 THEN "f"
                                  ELSE IF a = Entry + 2 THEN "main" ELSE ""],
     line |-> [a \in CodeAddrs |-> IF a >= Entry /\ a <= Entry + 2
                                  THEN a - Entry + 1 ELSE 0]]
StackMem(saved, ret) ==
    [w \in MappedWords |->
       IF w \in CodeWords THEN Image[w]
       ELSE LET k == (w - StackBase) \div (2 * WordSize)
            IN  IF w = FrameAt(k) THEN U64(saved[k]) ELSE U64(ret[k])]

InitBt ==
    /\ dbg = "prompt"
    /\ inferior = Inferior(TRUE, 1, NoMap)
    /\ break_points = <<>>
    /\ \E saved \in [0..(MaxFrames - 1) -> {0} \cup {FrameAt(k) : k \in 0..(MaxFrames - 1)}],
          ret \in [0..(MaxFrames - 1) -> RetOpts],
          rip \in RetOpts, rbp \in {FrameAt(0), 0} :
            /\ \A k \in 0..(MaxFrames - 1) : saved[k] \in SavedOpts(k)
            /\ tracee = Tracee("stopped", StackMem(saved, ret), rip, rbp, <<>>)
    /\ alive = {1}
    /\ nspawn = 1
    /\ debug_data = BtDebug
    /\ bt = BtIdle
    /\ hist = HistInit

NextBt == Backtrace \/ BtStep

SpecBt == InitBt /\ [][NextBt]_vars

\* print_backtrace runs in the debugger's own thread: once entered, its loop
\* keeps taking iterations until it breaks or returns.
SpecBtFair == InitBt /\ [][NextBt]_vars /\ WF_vars(BtStep)

\* ================================================================ properties

\* C1: a continue that starts with the inferior halted by the trap of the
\* breakpoint at A and returns a status has run the real instruction at A
\* exactly once, and A held the trap when the inferior was resumed.
C1_StepOverOnce ==
    (hist.cmd = "cont" /\ hist.fromTrap # NoAddr /\ hist.obs.resumed)
        => (hist.execs = 1 /\ hist.fromTrap \in hist.obs.traps)

\* C2: at the prompt with a live inferior, the installed addresses are exactly
\* the addresses that hold the trap in the inferior's memory.
C2_InstalledIffTrap ==
    (dbg = "prompt" /\ inferior.some /\ tracee.st = "stopped")
        => \A a \in CodeAddrs :
              (a \in DOMAIN inferior.bp) <=> (MemByte(tracee.mem, a) = TrapOp)

\* C3: the byte recorded for an installed address is the byte of the loaded
\* image at that address.
C3_RecordedIsOriginal ==
    \A a \in DOMAIN inferior.bp : inferior.bp[a] = OrigByte(a)

\* C4: at most one spawned child is alive.
C4_AtMostOneAlive == Cardinality(alive) <= 1

\* C5: when a run directly follows a run that left a stopped inferior and
\* gives a new inferior whose process exists, every address set before the
\* first run is in the new inferior's installed map and the trap is at it in
\* the new process's memory.
C5_PersistAcrossRestart ==
    (hist.cmd = "run" /\ hist.afterRun /\ hist.heldStopped /\ hist.newSome
        /\ Live(tracee))
        => /\ hist.preRun \subseteq DOMAIN inferior.bp
           /\ hist.preRun \subseteq TrapsIn(tracee.mem)

\* C6: a run issued while an inferior exists installs in the new inferior the
\* addresses installed in the prior one and the addresses pending at the run.
C6_RunKeepsPending ==
    (hist.cmd = "run" /\ hist.hadPrior /\ hist.newSome)
        => (hist.priorInstalled \cup hist.priorPending) \subseteq hist.atSpawn

\* C7: after a run or continue that reported Exited or Signaled the session
\* holds no inferior, and no later command sends a kill or ptrace call to the
\* terminated child.
C7_TerminalInvalidates ==
    /\ (hist.cmd \in {"run", "cont"} /\ hist.status.kind \in {"Exited", "Signaled"})
          => ~inferior.some
    /\ ~hist.deadCall

\* C8: the debugger aborts only on a wait status outside Stopped, Exited and
\* Signaled.
C8_NoAbort ==
    dbg = "panicked" => hist.msg = "waitpid returned unexpected status"

\* C9: patching the byte at an address with the trap and writing back the byte
\* the patch returned leaves the memory as it was before the patch.
C9_PatchRestore ==
    hist.cmd = "restore" => tracee.mem = hist.mem0
C9_Witness ==
    /\ hist.cmd = "restore"
    /\ inferior.bp = MapInsert(NoMap, CodeBase + WordSize - 1, 85)
    /\ MemByte(tracee.mem, CodeBase + WordSize - 1) = 85
    /\ MemByte(tracee.mem, CodeBase) = TrapOp

\* The frame-pointer chain of the stopped inferior: the saved frame pointer and
\* the return address of the frame at a, and whether the chain resolves to g,
\* f, main.
SavedFp(a) == ToNat([i \in WordIdx |-> MemByte(tracee.mem, a + i - 1)])
RetAddr(a) == ToNat([i \in WordIdx |-> MemByte(tracee.mem, a + WordSize + i - 1)])
FrameMapped(a) == MemMapped(tracee.mem, a) /\ MemMapped(tracee.mem, a + WordSize)
ChainGFMain ==
    /\ tracee.st = "stopped"
    /\ get_function_from_addr(debug_data, tracee.rip) = "g"
    /\ FrameMapped(tracee.rbp)
    /\ get_function_from_addr(debug_data, RetAddr(tracee.rbp)) = "f"
    /\ FrameMapped(SavedFp(tracee.rbp))
    /\ get_function_from_addr(debug_data, RetAddr(SavedFp(tracee.rbp))) = "main"
IsPrefix(p, q) == Len(p) <= Len(q) /\ SubSeq(q, 1, Len(p)) = p

\* C10: when the frame-pointer chain of the stopped inferior resolves to g, f,
\* main, a backtrace emits g, f, main in that order, succeeds, and has read
\* exactly the return address and the saved frame pointer of g's and of f's frame.
C10_BacktraceOrder ==
    (ChainGFMain /\ hist.cmd = "bt")
        => /\ IsPrefix(bt.frames, <<"g", "f", "main">>)
           /\ bt.reads <= 4
           /\ (dbg = "prompt" =>
                  bt.res = "Ok" /\ bt.frames = <<"g", "f", "main">> /\ bt.reads = 4)
C10_Witness ==
    /\ ChainGFMain /\ hist.cmd = "bt" /\ dbg = "prompt"
    /\ bt.frames = <<"g", "f", "main">>
    /\ SavedFp(SavedFp(tracee.rbp)) = FrameAt(0)
    /\ SavedFp(FrameAt(MaxFrames - 1)) = FrameAt(0)

\* C11: a backtrace that entered the loop of print_backtrace returns to the
\* prompt.
C11_BacktraceTerminates == (dbg = "backtrace") ~> (dbg = "prompt")

\* C12: a run holds an inferior afterwards only if the first wait after the
\* spawn reported a stop by SIGTRAP; after any other first report the run says
\* that the subprocess did not start and the session holds no inferior.
C12_SpawnOnlyOnTrap ==
    hist.cmd = "run"
        => /\ (hist.newSome \/ inferior.some) => hist.first = ExecStop
           /\ hist.first \notin {NoFirst, ExecStop}
                 => (~inferior.some /\ ~hist.newSome
                     /\ hist.msg = "Error starting subprocess")
C12_Witness ==
    /\ hist.cmd = "run" /\ hist.hadPrior
    /\ hist.first = RawStatus("Stopped", "SIGINT", 0)
    /\ ~inferior.some /\ nspawn = 2

\* The break specifications that do not resolve: "*zz" is no hexadecimal
\* number, the symbol data knows no function "nofn" and no address of line 99.
BadSpecs == {<<"*", "z", "z">>, <<"n", "o", "f", "n">>, <<"9", "9">>}

\* C13: a break command whose specification does not resolve reports a bad
\* breakpoint and changes neither the pending addresses nor the inferior, its
\* installed map or its process (which may reach a stop on its own before or
\* after the command, not by it); a break command that changes the pending
\* addresses was given a specification that resolves, and appends one address.
C13_BadBreakNoEffect ==
    [][(hist'.cmd = "break" /\ ~ChildStops)
         => /\ hist'.arg \in BadSpecs
                 => (hist'.msg = "Bad breakpoint!"
                     /\ UNCHANGED <<break_points, inferior, tracee, alive>>)
            /\ break_points' # break_points
                 => (hist'.arg \in BreakSpecs \ BadSpecs
                     /\ hist'.msg = "Set breakpoint at"
                     /\ Len(break_points') = Len(break_points) + 1
                     /\ SubSeq(break_points', 1, Len(break_points)) = break_points
                     /\ break_points'[Len(break_points')] \in {0, Entry - 1, Entry + 1})]_vars
C13_Witness ==
    /\ hist.cmd = "break" /\ hist.arg = <<"n", "o", "f", "n">>
    /\ hist.msg = "Bad breakpoint!"
    /\ inferior.some /\ DOMAIN inferior.bp # {} /\ break_points # <<>>

\* C14: when continue_running issues ptrace::cont no address is pending, and
\* every address that was pending when a continue command began is in the
\* installed map with the trap at it in the inferior's memory.
C14_PendingInstalledAtResume ==
    (hist.cmd \in {"run", "cont"} /\ hist.obs.resumed)
        => /\ hist.obs.pending = {}
           /\ hist.cmd = "cont"
                 => hist.priorPending \subseteq (hist.obs.installed \cap hist.obs.traps)
C14_Witness ==
    /\ hist.cmd = "cont" /\ hist.obs.resumed /\ hist.obs.stepped
    /\ hist.priorPending = {Entry - 1, Entry + 1}
    /\ hist.status.kind = "Stopped"

\* What a numeral is worth, told from a table of the digits: a numeral of a
\* radix is an optional "+" and at least one digit below the radix, worth
\* less than 2^64.
DigitTable ==
    [c \in {"0", "1", "2", "3", "4", "5", "6", "7", "8", "9"} |->
        CHOOSE v \in 0..9 : <<"0", "1", "2", "3", "4", "5", "6", "7", "8", "9">>[v + 1] = c]
    @@ ("a" :> 10 @@ "b" :> 11 @@ "c" :> 12 @@ "d" :> 13 @@ "e" :> 14 @@ "f" :> 15)
    @@ ("A" :> 10 @@ "B" :> 11 @@ "C" :> 12 @@ "D" :> 13 @@ "E" :> 14 @@ "F" :> 15)
Unsigned(q) == IF q # <<>> /\ q[1] = "+" THEN Tail(q) ELSE q
\* Whether digits, of which the first is not 0, are worth less than 2^64: in
\* radix 16 that is at most 16 digits; in radix 10 fewer than 20 digits, or 20
\* that read as 18, 446744073, 709551615 or less.
RECURSIVE Significant(_)
Significant(q) ==
    IF q # <<>> /\ q[1] = "0" THEN Significant(Tail(q)) ELSE q
RECURSIVE Worth(_, _)
Worth(q, radix) ==
    IF q = <<>> THEN 0
    ELSE Worth(SubSeq(q, 1, Len(q) - 1), radix) * radix + DigitTable[q[Len(q)]]
FitsUsize(q, radix) ==
    LET d == Significant(q)
        hi == Worth(SubSeq(d, 1, 2), 10)
        mid == Worth(SubSeq(d, 3, 11), 10)
        lo == Worth(SubSeq(d, 12, 20), 10)
    IN  IF radix = 16 THEN Len(d) <= 16
        ELSE \/ Len(d) < 20
             \/ /\ Len(d) = 20
                /\ \/ hi < 18
                   \/ hi = 18 /\ mid < 446744073
                   \/ hi = 18 /\ mid = 446744073 /\ lo <= 709551615
IsNumeral(q, radix) ==
    /\ Unsigned(q) # <<>>
    /\ \A i \in 1..Len(Unsigned(q)) :
          Unsigned(q)[i] \in DOMAIN DigitTable /\ DigitTable[Unsigned(q)[i]] < radix
    /\ FitsUsize(Unsigned(q), radix)
NumeralVal(q, radix) == Worth(Unsigned(q), radix)
\* The text after "*", without its 0x or 0X.
AfterStar(str) ==
    IF Len(str) >= 3 /\ str[2] = "0" /\ str[3] \in {"x", "X"}
    THEN SubSeq(str, 4, Len(str)) ELSE Tail(str)

\* C15: parse_address gives Addr(4096) for "*0x1000" and for "*1000",
\* LineNumber(42) for "42" and FunctionName("main") for "main"; for every
\* string with a leading "*" it gives the address its hexadecimal numeral (after
\* an optional 0x or 0X) is worth, or FalseAddr when that is no hexadecimal
\* numeral of a 64-bit number; for every other string the line number its
\* decimal numeral is worth, or the string as a function name.
C15_ParseForms ==
    hist.cmd = "parse"
        => /\ hist.arg \in {<<"*", "0", "x", "1", "0", "0", "0">>, <<"*", "1", "0", "0", "0">>}
                 => hist.parsed = [kind |-> "Addr", n |-> 4096, name |-> <<>>]
           /\ hist.arg = <<"4", "2">>
                 => hist.parsed = [kind |-> "LineNumber", n |-> 42, name |-> <<>>]
           /\ hist.arg = <<"m", "a", "i", "n">>
                 => hist.parsed = [kind |-> "FunctionName", n |-> 0, name |-> hist.arg]
           /\ IF hist.arg # <<>> /\ hist.arg[1] = "*"
              THEN IF IsNumeral(AfterStar(hist.arg), 16)
                   THEN hist.parsed = [kind |-> "Addr",
                                       n |-> NumeralVal(AfterStar(hist.arg), 16),
                                       name |-> <<>>]
                   ELSE hist.parsed = [kind |-> "FalseAddr", n |-> 0, name |-> <<>>]
              ELSE IF IsNumeral(hist.arg, 10)
                   THEN hist.parsed = [kind |-> "LineNumber",
                                       n |-> NumeralVal(hist.arg, 10), name |-> <<>>]
                   ELSE hist.parsed = [kind |-> "FunctionName", n |-> 0,
                                       name |-> hist.arg]
C15_Witness ==
    /\ hist.cmd = "parse"
    /\ hist.arg = <<"*", "0", "x", "1", "0", "0", "0">>
    /\ hist.parsed.kind = "Addr" /\ hist.parsed.n = 4096

\* C16: Inferior::wait gives Exited(c) for a report of exit with code c,
\* Signaled(s) for death by signal s, Stopped(s, ip) for a stop by signal s
\* with ip the instruction pointer of the stopped child (an error and no status
\* when its registers cannot be read), and aborts the debugger on every other
\* report; it aborts on no report of the three kinds.
C16_WaitClassifies ==
    hist.cmd = "wait"
        => /\ hist.raw.kind = "Exited"
                 => (dbg = "prompt" /\ hist.msg = "Ok"
                     /\ hist.status = [kind |-> "Exited", sig |-> "", ip |-> 0,
                                       code |-> hist.raw.code])
           /\ hist.raw.kind = "Signaled"
                 => (dbg = "prompt" /\ hist.msg = "Ok"
                     /\ hist.status = [kind |-> "Signaled", sig |-> hist.raw.sig,
                                       ip |-> 0, code |-> 0])
           /\ hist.raw.kind = "Stopped"
                 => /\ dbg = "prompt"
                    /\ IF tracee.st = "stopped"
                       THEN /\ hist.msg = "Ok"
                            /\ hist.status = [kind |-> "Stopped", sig |-> hist.raw.sig,
                                              ip |-> tracee.rip, code |-> 0]
                       ELSE hist.msg = "Err" /\ hist.status.kind = ""
           /\ hist.raw.kind \notin {"Exited", "Signaled", "Stopped"}
                 => (dbg = "panicked" /\ hist.status.kind = ""
                     /\ hist.msg = "waitpid returned unexpected status")
C16_Witness ==
    /\ hist.cmd = "wait" /\ hist.raw = [kind |-> "Stopped", sig |-> "SIGTRAP", code |-> 0]
    /\ hist.status.kind = "Stopped" /\ hist.status.ip = Entry + 2

\* C17: write_byte(addr, val) succeeds on a mapped word, changes the byte at
\* addr to val and no other byte of the memory, and returns the byte that was
\* at addr before.
C17_WriteByteFrame ==
    hist.cmd = "write"
        => /\ hist.wb.ok
           /\ DOMAIN tracee.mem = DOMAIN hist.mem0
           /\ \A w \in DOMAIN hist.mem0 : \A i \in 1..8 :
                 tracee.mem[w][i] = IF w + i - 1 = hist.wb.addr THEN hist.wb.val
                                    ELSE hist.mem0[w][i]
           /\ \E w \in DOMAIN hist.mem0 : \E i \in 1..8 :
                 w + i - 1 = hist.wb.addr /\ hist.wb.byte = hist.mem0[w][i]
C17_Witness ==
    /\ hist.cmd = "write" /\ hist.wb.addr = CodeBase + 3 /\ hist.wb.val = 171
    /\ hist.wb.byte = 255 /\ MemByte(tracee.mem, CodeBase + 3) = 171
    /\ MemByte(tracee.mem, CodeBase + 4) = 204 /\ MemByte(tracee.mem, CodeBase + 2) = 85

\* C18: what Inferior::kill hands to the next run is addresses only, and every
\* byte in the installed map of the inferior a run creates after killing a
\* prior one is the byte of the new child's own freshly loaded memory at that
\* address, whatever the prior inferior had recorded for it.
C18_NoByteCarriedOver ==
    (hist.cmd = "run" /\ hist.hadPrior /\ hist.newSome)
        => \A a \in DOMAIN hist.spawnMap : hist.spawnMap[a] = MemByte(Image, a)
C18_Witness ==
    /\ hist.cmd = "run" /\ hist.hadPrior /\ hist.newSome
    /\ (Entry + 1) \in DOMAIN hist.priorMap /\ hist.priorMap[Entry + 1] = TrapOp
    /\ (Entry + 1) \in DOMAIN hist.spawnMap
    /\ hist.spawnMap[Entry + 1] = OrigByte(Entry + 1)

\* C19: after a continue whose installing of the pending addresses failed, or
\* a run whose launch returned no inferior, every address that was pending or
\* installed before the command is pending or in the installed map of the
\* inferior the session holds.
C19_NoAddressLost ==
    ((hist.cmd = "cont" /\ hist.installFailed)
       \/ (hist.cmd = "run" /\ hist.msg = "Error starting subprocess"))
        => (hist.priorInstalled \cup hist.priorPending)
              \subseteq (Range(break_points)
                          \cup (IF inferior.some THEN DOMAIN inferior.bp ELSE {}))

\* C20: the continue_running of a run (the inferior is at its exec stop), or of
\* a continue command that did not begin with the inferior halted by the trap
\* of a breakpoint, neither rewinds nor single-steps.
C20_RewindOnlyAfterTrap ==
    (hist.cmd = "run" \/ (hist.cmd = "cont" /\ hist.fromTrap = NoAddr))
        => ~hist.obs.stepped

====
